---- MODULE Spec2Model ----
(***************************************************************************)
(* Model of school_logging: src/school_logging/log.py (ColoredLogger,      *)
(* ColoredFormatter, CriticalExitHandler) on top of the logger registry    *)
(* and handler dispatch of the platform's logging library.                 *)
(***************************************************************************)
EXTENDS Integers, Sequences, FiniteSets, TLC

(* ---------------------------------------------------------------------- *)
(* Bounds                                                                  *)
(* ---------------------------------------------------------------------- *)
\* the wall clock (whole seconds) runs from 0 to MaxClock
MaxClock == 1
\* largest number of entries of a module_log_levels dict
MaxModules == 1
\* number of threads that construct loggers concurrently
MaxThreads == 2

(* ---------------------------------------------------------------------- *)
(* Severity model                                                          *)
(* ---------------------------------------------------------------------- *)
NOTSET == 0
DEBUG == 10
INFO == 20
WARNING == 30
ERROR == 40
CRITICAL == 50

Levels == {DEBUG, INFO, WARNING, ERROR, CRITICAL}

None == "None"
\* no path: the value of a path variable that holds None
NoPath == <<>>
\* the exit status of a process that has not exited; <<n>> once it has
Running == <<>>

\* logging.getLevelName for the five standard levels
levelname(levelno) ==
  CASE levelno = DEBUG -> "DEBUG"
    [] levelno = INFO -> "INFO"
    [] levelno = WARNING -> "WARNING"
    [] levelno = ERROR -> "ERROR"
    [] levelno = CRITICAL -> "CRITICAL"
    [] OTHER -> "Level"

LOG_COLORS ==
  [k \in {"DEBUG", "INFO", "WARNING", "ERROR", "CRITICAL"} |->
     CASE k = "DEBUG" -> "ESC[94m"
       [] k = "INFO" -> "ESC[92m"
       [] k = "WARNING" -> "ESC[93m"
       [] k = "ERROR" -> "ESC[91m"
       [] k = "CRITICAL" -> "ESC[95m"]

RESET_COLOR == "ESC[0m"

(* ---------------------------------------------------------------------- *)
(* Verbosity strings: a string is a sequence of one-character strings      *)
(* ---------------------------------------------------------------------- *)
Lower == <<"a","b","c","d","e","f","g","h","i","j","k","l","m",
           "n","o","p","q","r","s","t","u","v","w","x","y","z">>
Upper == <<"A","B","C","D","E","F","G","H","I","J","K","L","M",
           "N","O","P","Q","R","S","T","U","V","W","X","Y","Z">>

\* the one character U+0131, the dotless lower-case i, whose upper case is I
DotlessI == "U+0131"

\* the upper-case letter of each lower-case letter
UpperOf ==
  [c \in {Lower[i] : i \in 1..26} \cup {DotlessI} |->
     IF c = DotlessI THEN "I" ELSE Upper[CHOOSE i \in 1..26 : Lower[i] = c]]

\* str.upper() on one character
upper_char(c) == IF c \in DOMAIN UpperOf THEN UpperOf[c] ELSE c

\* str.upper()
upper(s) == [i \in 1..Len(s) |-> upper_char(s[i])]

S_DEBUG == <<"D","E","B","U","G">>
S_INFO == <<"I","N","F","O">>
S_WARNING == <<"W","A","R","N","I","N","G">>
S_ERROR == <<"E","R","R","O","R">>
S_CRITICAL == <<"C","R","I","T","I","C","A","L">>

log_level_mapping ==
  [k \in {S_DEBUG, S_INFO, S_WARNING, S_ERROR, S_CRITICAL} |->
     CASE k = S_DEBUG -> DEBUG
       [] k = S_INFO -> INFO
       [] k = S_WARNING -> WARNING
       [] k = S_ERROR -> ERROR
       [] k = S_CRITICAL -> CRITICAL]

\* a lookup of the string as it was passed, without upper()
map_log_level_exact(verbose) ==
  IF verbose \in DOMAIN log_level_mapping
  THEN log_level_mapping[verbose]
  ELSE INFO

\* ColoredLogger._map_log_level: dict.get(verbose.upper(), logging.INFO)
map_log_level(verbose) ==
  IF upper(verbose) \in DOMAIN log_level_mapping
  THEN log_level_mapping[upper(verbose)]
  ELSE INFO

\* the verbosity strings callers pass: the canonical names, other spellings
\* of them, and a string that names no level
VerboseInputs ==
  {S_DEBUG, S_INFO, S_WARNING, S_ERROR, S_CRITICAL,
   <<"E","r","r","o","r">>, <<"T","R","A","C","E">>}

\* the lower-case letter of each upper-case letter
LowerOf ==
  [c \in {Upper[i] : i \in 1..26} |-> Lower[CHOOSE i \in 1..26 : Upper[i] = c]]

\* an upper-case letter and the characters that are its lower case
CaseForms(c) == {c, LowerOf[c]} \cup (IF c = "I" THEN {DotlessI} ELSE {})

RECURSIVE Spellings(_, _)
\* every upper-, lower- and mixed-case spelling of the first n letters of an
\* upper-case name
Spellings(k, n) ==
  IF n = 0 THEN {<<>>}
  ELSE {Append(p, c) : p \in Spellings(k, n - 1), c \in CaseForms(k[n])}

\* the longest of the arbitrary strings
MaxStrLen == 3
\* the characters of the arbitrary strings
OtherChars == {"I", "n", "F", "o", " "}

RECURSIVE Strings(_)
\* every string of at most n of these characters, the empty string included
Strings(n) ==
  IF n = 0 THEN {<<>>}
  ELSE LET shorter == Strings(n - 1)
       IN shorter \cup {Append(p, c) : p \in {q \in shorter : Len(q) = n - 1},
                                       c \in OtherChars}

\* the strings _map_log_level is applied to: every spelling of the five level
\* names, short arbitrary strings, and near misses of a level name
MapInputs ==
  UNION {Spellings(k, Len(k)) : k \in DOMAIN log_level_mapping}
    \cup Strings(MaxStrLen)
    \cup {<<"T","R","A","C","E">>, <<"W","A","R","N">>, <<"w","a","r","n">>,
          <<"I","N","F","O","S">>, <<" ","D","E","B","U","G">>,
          <<"D","E","B","U","G"," ">>, <<"N","O","T","S","E","T">>,
          <<"F","A","T","A","L">>, <<"1","0">>, <<"e","r","r","0","r">>}

(* ---------------------------------------------------------------------- *)
(* Logger names                                                            *)
(* ---------------------------------------------------------------------- *)
Root == "root"
\* names the application gives to ColoredLogger
Names == {"a", "a.b"}

\* the dotted prefix of a name that is itself a name, Root when there is none
DottedParent(name) == IF name = "a.b" THEN "a" ELSE Root

\* ColoredLogger._configure_third_party_loggers: the level table
ThirdPartyLevels ==
  [k \in {"httpx", "httpcore", "hpack", "urllib3", "asyncio", "h2",
          "supabase", "postgrest", "gotrue", "realtime", "storage3",
          "transformers", "torch", "spacy"} |->
     IF k \in {"supabase", "spacy"} THEN INFO ELSE WARNING]

(* ---------------------------------------------------------------------- *)
(* State                                                                   *)
(* ---------------------------------------------------------------------- *)
VARIABLES
  loggers,          \* the registry: name -> [level, propagate, handlers]
  shared_log_file,  \* ColoredLogger._shared_log_file: NoPath (None) or a path
  instances,        \* names for which a ColoredLogger object exists
  setup_by,         \* name -> the level of the ColoredLogger whose
                    \* _setup_logger produced the logger's present
                    \* configuration; NOTSET when there is none or when
                    \* configure_logging has touched the logger since
  now,              \* datetime.now(), in whole seconds
  exit_status,      \* Running, or <<status>> once the process has exited
  out,              \* what the last call wrote, in order
  last,             \* the last call: [op, name, arg, before], before
                    \* being the logger as a ColoredLogger(..) found it
  assignments,      \* how often _shared_log_file has been assigned
  pc,               \* thread -> where it is in ColoredLogger.__init__
  frame,            \* thread -> its locals: name, level, timestamp
  calls,            \* the calls made so far, where a run keeps them
  written           \* the lines written so far by all calls, in the order
                    \* they reached the streams, where a run keeps them

vars == <<loggers, shared_log_file, instances, setup_by, now,
          exit_status, out, last, assignments, pc, frame, calls, written>>

\* the record of the past calls and their output
history == <<calls, written>>

\* the variables only the concurrent constructions use
threads == <<pc, frame>>

(* ---------------------------------------------------------------------- *)
(* The logging library: registry, levels, handler dispatch                 *)
(* ---------------------------------------------------------------------- *)
\* a handler: its class, its threshold, and for a formatter-carrying handler
\* the ColoredFormatter's colored flag, for a FileHandler its path
StreamHandler(level, colored) ==
  [kind |-> "StreamHandler", level |-> level, colored |-> colored, path |-> NoPath]

FileHandler(path, level, colored) ==
  [kind |-> "FileHandler", level |-> level, colored |-> colored, path |-> path]

\* a handler is created with level NOTSET; CriticalExitHandler has no formatter
CriticalExitHandler ==
  [kind |-> "CriticalExitHandler", level |-> NOTSET, colored |-> FALSE, path |-> NoPath]

\* a logger as logging.getLogger creates it
NewLogger == [level |-> NOTSET, propagate |-> TRUE, handlers |-> <<>>]

\* the root logger of a fresh interpreter
RootLogger == [level |-> WARNING, propagate |-> TRUE, handlers |-> <<>>]

\* logging.getLogger(name): the registry with the logger created if absent
getLogger(reg, name) ==
  IF name \in DOMAIN reg THEN reg ELSE reg @@ (name :> NewLogger)

\* Logger.parent: the nearest ancestor in the registry, else the root
parent(reg, name) ==
  IF DottedParent(name) \in DOMAIN reg THEN DottedParent(name) ELSE Root

RECURSIVE getEffectiveLevel(_, _)
\* Logger.getEffectiveLevel: the first level set on the way to the root
getEffectiveLevel(reg, name) ==
  IF reg[name].level # NOTSET THEN reg[name].level
  ELSE IF name = Root THEN NOTSET
  ELSE getEffectiveLevel(reg, parent(reg, name))

\* Logger.isEnabledFor
isEnabledFor(reg, name, levelno) == levelno >= getEffectiveLevel(reg, name)

RECURSIVE HandlerChain(_, _)
\* the handlers Logger.callHandlers visits, in order: the logger's own, then
\* its ancestors' while propagate is set
HandlerChain(reg, name) ==
  reg[name].handlers \o
    (IF name = Root \/ ~reg[name].propagate
     THEN <<>>
     ELSE HandlerChain(reg, parent(reg, name)))

\* the rendered template: asctime and filename are left out
Template(record) ==
  [name |-> record.name, levelname |-> levelname(record.levelno),
   message |-> record.msg]

\* a formatter that wraps every line in color, whatever its flag
format_always_colored(colored, record) ==
  <<(IF levelname(record.levelno) \in DOMAIN LOG_COLORS
     THEN LOG_COLORS[levelname(record.levelno)]
     ELSE RESET_COLOR),
    Template(record), RESET_COLOR>>

\* ColoredFormatter.format: a line is the sequence of its parts
format(colored, record) ==
  IF colored
  THEN <<(IF levelname(record.levelno) \in DOMAIN LOG_COLORS
          THEN LOG_COLORS[levelname(record.levelno)]
          ELSE RESET_COLOR),
         Template(record), RESET_COLOR>>
  ELSE <<Template(record)>>

\* CriticalExitHandler.emit with the comparison strict
CriticalExitHandler_emit_above(record) ==
  IF record.levelno > CRITICAL
  THEN <<[sink |-> "exit", path |-> NoPath, status |-> 1, line |-> <<>>]>>
  ELSE <<>>

\* CriticalExitHandler.emit with the comparison against ERROR
CriticalExitHandler_emit_from_error(record) ==
  IF record.levelno >= ERROR
  THEN <<[sink |-> "exit", path |-> NoPath, status |-> 1, line |-> <<>>]>>
  ELSE <<>>

\* CriticalExitHandler.emit: sys.exit(1) at CRITICAL and above
CriticalExitHandler_emit(record) ==
  IF record.levelno >= CRITICAL
  THEN <<[sink |-> "exit", path |-> NoPath, status |-> 1, line |-> <<>>]>>
  ELSE <<>>

\* what one handler does with a record that passed its threshold; a handler
\* of another class (a NullHandler) writes nothing
emit(h, record) ==
  CASE h.kind = "StreamHandler" ->
         <<[sink |-> "console", path |-> NoPath, status |-> 0,
            line |-> format(h.colored, record)]>>
    [] h.kind = "FileHandler" ->
         <<[sink |-> "file", path |-> h.path, status |-> 0,
            line |-> format(h.colored, record)]>>
    [] h.kind = "CriticalExitHandler" -> CriticalExitHandler_emit(record)
    [] OTHER -> <<>>

Exits(events) == \E i \in 1..Len(events) : events[i].sink = "exit"

\* the status sys.exit was called with
ExitStatus(events) ==
  events[CHOOSE i \in 1..Len(events) : events[i].sink = "exit"].status

RECURSIVE callHandlersFrom(_, _, _)
\* the loop of Logger.callHandlers from handler i on; sys.exit ends it
callHandlersFrom(chain, record, i) ==
  IF i > Len(chain) THEN <<>>
  ELSE LET here == IF record.levelno >= chain[i].level
                   THEN emit(chain[i], record)
                   ELSE <<>>
       IN IF Exits(here) THEN here
          ELSE here \o callHandlersFrom(chain, record, i + 1)

\* logging.lastResort: a StreamHandler at WARNING printing the bare message,
\* used when no handler was found
lastResort(record) ==
  IF record.levelno >= WARNING
  THEN <<[sink |-> "console", path |-> NoPath, status |-> 0,
          line |-> <<record.msg>>]>>
  ELSE <<>>

callHandlers(reg, record) ==
  IF Len(HandlerChain(reg, record.name)) = 0
  THEN lastResort(record)
  ELSE callHandlersFrom(HandlerChain(reg, record.name), record, 1)

\* Logger.debug/info/warning/error/critical: what the call writes, in order
log(reg, name, levelno, msg) ==
  IF isEnabledFor(reg, name, levelno)
  THEN callHandlers(reg, [name |-> name, levelno |-> levelno, msg |-> msg])
  ELSE <<>>

(* ---------------------------------------------------------------------- *)
(* ColoredLogger                                                           *)
(* ---------------------------------------------------------------------- *)
\* os.path.join(log_dir, f'logs_{timestamp}.log') for the second ts
LogPath(ts) == <<"logging", ts>>

\* the lazy initialisation without its test
needs_init_always(shared) == TRUE

\* the test of the lazy initialisation: _shared_log_file is None
needs_init(shared) == shared = NoPath

\* setup_console with the logger's level fixed rather than taken from verbose
setup_console_fixed_level(reg, name, level) ==
  [getLogger(reg, name) EXCEPT
     ![name] = [level |-> INFO,
                propagate |-> FALSE,
                handlers |-> <<StreamHandler(level, TRUE)>>]]

\* setup_console without the loop that removes the existing handlers
setup_console_keep_handlers(reg, name, level) ==
  [getLogger(reg, name) EXCEPT
     ![name] = [level |-> level,
                propagate |-> FALSE,
                handlers |-> @.handlers \o <<StreamHandler(level, TRUE)>>]]

\* setup_console without the assignment propagate = False
setup_console_propagating(reg, name, level) ==
  [getLogger(reg, name) EXCEPT
     ![name] = [level |-> level,
                propagate |-> @.propagate,
                handlers |-> <<StreamHandler(level, TRUE)>>]]

\* _setup_logger up to the console handler: the logger resolved, its level
\* and propagate set, its handlers removed, the console handler added
setup_console(reg, name, level) ==
  [getLogger(reg, name) EXCEPT
     ![name] = [level |-> level,
                propagate |-> FALSE,
                handlers |-> <<StreamHandler(level, TRUE)>>]]

\* setup_file_and_exit with the CriticalExitHandler added before the file
\* handler
setup_exit_and_file(reg, name, shared) ==
  [reg EXCEPT
     ![name].handlers = @ \o <<CriticalExitHandler,
                               FileHandler(shared, DEBUG, FALSE)>>]

\* _setup_logger from the file handler on: the file handler on the shared
\* path and the CriticalExitHandler added
setup_file_and_exit(reg, name, shared) ==
  [reg EXCEPT
     ![name].handlers = @ \o <<FileHandler(shared, DEBUG, FALSE),
                               CriticalExitHandler>>]

\* _setup_logger returning the logger as it is when it has handlers
setup_logger_once(reg, name, level, shared) ==
  IF name \in DOMAIN reg /\ reg[name].handlers # <<>>
  THEN reg
  ELSE setup_file_and_exit(setup_console(reg, name, level), name, shared)

\* ColoredLogger._setup_logger on the registry, the shared path being set
setup_logger(reg, name, level, shared) ==
  setup_file_and_exit(setup_console(reg, name, level), name, shared)

\* the third-party loggers the model follows; the others of the table are
\* configured alike and never logged on
ThirdParty == DOMAIN ThirdPartyLevels \cap {"httpx"}

\* _configure_third_party_loggers silencing each logger with a NullHandler
\* as well
configure_third_party_loggers_null(reg) ==
  [k \in DOMAIN reg \cup ThirdParty |->
     IF k \in ThirdParty
     THEN [getLogger(reg, k)[k] EXCEPT
             !.level = ThirdPartyLevels[k],
             !.propagate = FALSE,
             !.handlers = @ \o <<[kind |-> "NullHandler", level |-> NOTSET,
                                  colored |-> FALSE, path |-> NoPath]>>]
     ELSE reg[k]]

\* ColoredLogger._configure_third_party_loggers
configure_third_party_loggers(reg) ==
  [k \in DOMAIN reg \cup ThirdParty |->
     IF k \in ThirdParty
     THEN [getLogger(reg, k)[k] EXCEPT !.level = ThirdPartyLevels[k],
                                       !.propagate = FALSE]
     ELSE reg[k]]

\* one turn of the loop of configure_logging over module_log_levels, up to
\* the handlers of the module logger
configure_module(reg, module_name, level_int, shared) ==
  [getLogger(reg, module_name) EXCEPT
     ![module_name] = [level |-> level_int,
                       propagate |-> FALSE,
                       handlers |-> <<StreamHandler(level_int, TRUE),
                                      FileHandler(shared, DEBUG, FALSE)>>]]

\* the message configure_logging logs for each module
SetLevelMsg == "Set log level for module"

RECURSIVE configure_modules(_, _, _, _, _)
\* the loop of configure_logging from item i on: the registry it leaves and
\* what self.logger.info wrote on the way
configure_modules(reg, self_name, items, shared, i) ==
  IF i > Len(items) THEN [reg |-> reg, out |-> <<>>]
  ELSE LET reg1 == configure_module(reg, items[i][1],
                                    map_log_level(items[i][2]), shared)
           rest == configure_modules(reg1, self_name, items, shared, i + 1)
       IN [reg |-> rest.reg,
           out |-> log(reg1, self_name, INFO, SetLevelMsg) \o rest.out]

\* names a module_log_levels dict may list (the name of a ColoredLogger among
\* them), and the level strings it gives
ModuleNames == {"a"} \cup ThirdParty
ModuleLevelInputs == {<<"i","n","f","o">>, S_CRITICAL}

\* the module_log_levels dicts, as their items in insertion order; the empty
\* one stands for None too
ModuleLogLevels ==
  {items \in UNION {[1..n -> ModuleNames \X ModuleLevelInputs] : n \in 0..MaxModules} :
     \A i, j \in 1..Len(items) : i # j => items[i][1] # items[j][1]}

Keys(items) == {items[i][1] : i \in 1..Len(items)}

Init ==
  /\ loggers = (Root :> RootLogger)
  /\ shared_log_file = NoPath
  /\ instances = {}
  /\ setup_by = [n \in Names |-> NOTSET]
  /\ now = 0
  /\ exit_status = Running
  /\ out = <<>>
  /\ last = [op |-> "init", name |-> None, arg |-> None, before |-> NewLogger]
  /\ assignments = 0
  /\ pc = [t \in 1..MaxThreads |-> "idle"]
  /\ frame = [t \in 1..MaxThreads |-> <<>>]
  /\ calls = <<>>
  /\ written = <<>>

\* time passes
Tick ==
  /\ exit_status = Running
  /\ now < MaxClock
  /\ now' = now + 1
  /\ UNCHANGED <<loggers, shared_log_file, instances, setup_by, exit_status,
                 out, last, assignments, threads>>
  /\ UNCHANGED history

\* ColoredLogger(name, verbose)
Construct(name, verbose) ==
  /\ exit_status = Running
  /\ IF needs_init(shared_log_file)
     THEN /\ shared_log_file' = LogPath(now)
          /\ assignments' = assignments + 1
     ELSE UNCHANGED <<shared_log_file, assignments>>
  /\ \E level \in {map_log_level(verbose)} :
       /\ loggers' = setup_logger(loggers, name, level, shared_log_file')
       /\ setup_by' = [setup_by EXCEPT ![name] = level]
  /\ instances' = instances \cup {name}
  /\ out' = <<>>
  /\ last' = [op |-> "ColoredLogger", name |-> name, arg |-> verbose,
              before |-> getLogger(loggers, name)[name]]
  /\ UNCHANGED <<now, exit_status, threads>>
  /\ UNCHANGED history

\* self.debug / info / warning / error / critical on the ColoredLogger `name`
LogCall(name, levelno) ==
  /\ exit_status = Running
  /\ name \in instances
  /\ out' = log(loggers, name, levelno, "msg")
  /\ exit_status' = IF Exits(out') THEN <<ExitStatus(out')>> ELSE Running
  /\ last' = [op |-> "log", name |-> name, arg |-> levelno,
              before |-> NewLogger]
  /\ UNCHANGED <<loggers, shared_log_file, instances, setup_by, now,
                 assignments, threads>>

\* the emission call in a run that does not keep the past output
Log(name, levelno) ==
  /\ LogCall(name, levelno)
  /\ UNCHANGED history

\* a library logs on its own logger: logging.getLogger(name).log(levelno, ..)
ThirdPartyLog(name, levelno) ==
  /\ exit_status = Running
  /\ loggers' = getLogger(loggers, name)
  /\ out' = log(loggers', name, levelno, "msg")
  /\ exit_status' = IF Exits(out') THEN <<ExitStatus(out')>> ELSE Running
  /\ last' = [op |-> "lib", name |-> name, arg |-> levelno,
              before |-> NewLogger]
  /\ UNCHANGED <<shared_log_file, instances, setup_by, now, assignments,
                 threads>>
  /\ UNCHANGED history

\* self.configure_logging(module_log_levels) on the ColoredLogger `self_name`
ConfigureLogging(self_name, items) ==
  /\ exit_status = Running
  /\ self_name \in instances
  /\ LET done == configure_modules(configure_third_party_loggers(loggers),
                                   self_name, items, shared_log_file, 1)
     IN /\ loggers' = done.reg
        /\ out' = done.out
  /\ setup_by' = [n \in Names |->
                    IF n \in Keys(items) \cup ThirdParty
                    THEN NOTSET ELSE setup_by[n]]
  /\ exit_status' = IF Exits(out') THEN <<ExitStatus(out')>> ELSE Running
  /\ last' = [op |-> "configure_logging", name |-> self_name,
              arg |-> Keys(items), before |-> NewLogger]
  /\ UNCHANGED <<shared_log_file, instances, now, assignments, threads>>
  /\ UNCHANGED history

Next ==
  \/ Tick
  \/ \E name \in Names, verbose \in VerboseInputs : Construct(name, verbose)
  \/ \E name \in Names, levelno \in Levels : Log(name, levelno)
  \/ \E name \in ThirdParty, levelno \in Levels :
       ThirdPartyLog(name, levelno)
  \/ \E self_name \in Names, items \in ModuleLogLevels :
       ConfigureLogging(self_name, items)

Spec == Init /\ [][Next]_vars

(* ---------------------------------------------------------------------- *)
(* A process that constructs one logger: _map_log_level applied to each    *)
(* string of MapInputs                                                     *)
(* ---------------------------------------------------------------------- *)
\* the first ColoredLogger(name, verbose) of a process
MapVerbosity(name, verbose) ==
  /\ instances = {}
  /\ Construct(name, verbose)

NextMap == \E verbose \in MapInputs : MapVerbosity("a", verbose)

SpecMap == Init /\ [][NextMap]_vars

(* ---------------------------------------------------------------------- *)
(* A process that makes up to MaxCalls emission calls one after the other, *)
(* with the content of the console and of the log file kept                *)
(* ---------------------------------------------------------------------- *)
\* the most calls a run keeps
MaxCalls == 2

\* the verbosities of the loggers of such a process
OrderVerbosities == {S_DEBUG, S_WARNING}

IsLine(event) == event.sink \in {"console", "file"}

\* the lines among the events of the k-th call, in the order the handlers
\* wrote them: StreamHandler.emit writes and flushes before it returns
LinesOf(events, k) ==
  LET lines == SelectSeq(events, IsLine)
  IN [i \in 1..Len(lines) |->
        [call |-> k, sink |-> lines[i].sink, path |-> lines[i].path,
         line |-> lines[i].line]]

\* the emission call, its lines appended to what the streams hold
LogKept(name, levelno) ==
  /\ Len(calls) < MaxCalls
  /\ LogCall(name, levelno)
  /\ calls' = Append(calls, [op |-> "log", name |-> name, arg |-> levelno])
  /\ written' = written \o LinesOf(out', Len(calls'))

NextOrder ==
  \/ \E name \in Names, verbose \in OrderVerbosities :
       Construct(name, verbose)
  \/ \E name \in Names, levelno \in Levels : LogKept(name, levelno)

SpecOrder == Init /\ [][NextOrder]_vars

(* ---------------------------------------------------------------------- *)
(* The legacy module src/log.py: setup_logger on the root logger           *)
(* ---------------------------------------------------------------------- *)
\* the most calls of setup_logger in a run
MaxSetups == 3

\* the loggers the legacy module emits on: 'ui' and the module's own
LegacyNames == {"ui", "__main__"}

\* setup_logger that replaces the root logger's handlers by the new one
legacy_setup_logger_replace(reg, verbose_level) ==
  [reg EXCEPT ![Root] = [level |-> DEBUG,
                         propagate |-> @.propagate,
                         handlers |-> <<StreamHandler(verbose_level, TRUE)>>]]

\* setup_logger(_verbose_level): the root logger set to DEBUG and a console
\* handler with the level passed and the coloring formatter added to it
legacy_setup_logger(reg, verbose_level) ==
  [reg EXCEPT ![Root] = [level |-> DEBUG,
                         propagate |-> @.propagate,
                         handlers |-> @.handlers \o
                                        <<StreamHandler(verbose_level, TRUE)>>]]

\* a call of setup_logger
SetupLogger(verbose_level) ==
  /\ exit_status = Running
  /\ Len(calls) < MaxSetups
  /\ loggers' = legacy_setup_logger(loggers, verbose_level)
  /\ calls' = Append(calls, [op |-> "setup_logger", name |-> Root,
                             arg |-> verbose_level])
  /\ out' = <<>>
  /\ last' = [op |-> "setup_logger", name |-> Root, arg |-> verbose_level,
              before |-> NewLogger]
  /\ UNCHANGED <<shared_log_file, instances, setup_by, now, exit_status,
                 assignments, threads, written>>

\* config_logger(): setup_logger, then a debug record on the logger 'ui'
ConfigLogger(verbose_level) ==
  /\ exit_status = Running
  /\ Len(calls) < MaxSetups
  /\ loggers' = getLogger(legacy_setup_logger(loggers, verbose_level), "ui")
  /\ calls' = Append(calls, [op |-> "config_logger", name |-> Root,
                             arg |-> verbose_level])
  /\ out' = log(loggers', "ui", DEBUG, "msg")
  /\ last' = [op |-> "config_logger", name |-> "ui", arg |-> verbose_level,
              before |-> NewLogger]
  /\ UNCHANGED <<shared_log_file, instances, setup_by, now, exit_status,
                 assignments, threads, written>>

NextLegacy ==
  \/ \E verbose_level \in Levels : SetupLogger(verbose_level)
  \/ \E verbose_level \in Levels : ConfigLogger(verbose_level)
  \/ \E name \in LegacyNames, levelno \in Levels :
       ThirdPartyLog(name, levelno)

SpecLegacy == Init /\ [][NextLegacy]_vars

(* ---------------------------------------------------------------------- *)
(* Loggers constructed concurrently: each thread runs ColoredLogger(..),   *)
(* the threads interleaving between the statements of _setup_logger        *)
(* ---------------------------------------------------------------------- *)
\* __init__: self.name, self.level
Begin(t, name, verbose) ==
  /\ pc[t] = "idle"
  /\ frame' = [frame EXCEPT ![t] = <<name, map_log_level(verbose), 0>>]
  /\ pc' = [pc EXCEPT ![t] = "setup"]
  /\ last' = [op |-> "ColoredLogger", name |-> name, arg |-> verbose,
              before |-> getLogger(loggers, name)[name]]
  /\ UNCHANGED <<loggers, shared_log_file, instances, setup_by, now,
                 exit_status, out, assignments>>
  /\ UNCHANGED history

\* _setup_logger up to logger.addHandler(ch)
SetupConsole(t) ==
  /\ pc[t] = "setup"
  /\ loggers' = setup_console(loggers, frame[t][1], frame[t][2])
  /\ pc' = [pc EXCEPT ![t] = "test"]
  /\ UNCHANGED <<shared_log_file, instances, setup_by, now, exit_status, out,
                 last, assignments, frame>>
  /\ UNCHANGED history

\* if ColoredLogger._shared_log_file is None
TestNone(t) ==
  /\ pc[t] = "test"
  /\ pc' = [pc EXCEPT ![t] = IF needs_init(shared_log_file)
                              THEN "stamp" ELSE "open"]
  /\ UNCHANGED <<loggers, shared_log_file, instances, setup_by, now,
                 exit_status, out, last, assignments, frame>>
  /\ UNCHANGED history

\* timestamp = datetime.now().strftime(..)
ReadTimestamp(t) ==
  /\ pc[t] = "stamp"
  /\ frame' = [frame EXCEPT ![t][3] = now]
  /\ pc' = [pc EXCEPT ![t] = "assign"]
  /\ UNCHANGED <<loggers, shared_log_file, instances, setup_by, now,
                 exit_status, out, last, assignments>>
  /\ UNCHANGED history

\* ColoredLogger._shared_log_file = os.path.join(..)
Assign(t) ==
  /\ pc[t] = "assign"
  /\ shared_log_file' = LogPath(frame[t][3])
  /\ assignments' = assignments + 1
  /\ pc' = [pc EXCEPT ![t] = "open"]
  /\ UNCHANGED <<loggers, instances, setup_by, now, exit_status, out, last,
                 frame>>
  /\ UNCHANGED history

\* fh = FileHandler(ColoredLogger._shared_log_file) .. return logger
OpenFile(t) ==
  /\ pc[t] = "open"
  /\ loggers' = setup_file_and_exit(loggers, frame[t][1], shared_log_file)
  /\ instances' = instances \cup {frame[t][1]}
  /\ setup_by' = [setup_by EXCEPT ![frame[t][1]] = frame[t][2]]
  /\ pc' = [pc EXCEPT ![t] = "done"]
  /\ UNCHANGED <<shared_log_file, now, exit_status, out, last, assignments,
                 frame>>
  /\ UNCHANGED history

NextConc ==
  \/ Tick
  \/ \E t \in 1..MaxThreads, name \in Names, verbose \in VerboseInputs :
       Begin(t, name, verbose)
  \/ \E t \in 1..MaxThreads : SetupConsole(t)
  \/ \E t \in 1..MaxThreads : TestNone(t)
  \/ \E t \in 1..MaxThreads : ReadTimestamp(t)
  \/ \E t \in 1..MaxThreads : Assign(t)
  \/ \E t \in 1..MaxThreads : OpenFile(t)

SpecConc == Init /\ [][NextConc]_vars

TypeOK ==
  /\ shared_log_file \in {NoPath} \cup {LogPath(t) : t \in 0..MaxClock}
  /\ instances \subseteq Names
  /\ now \in 0..MaxClock
  /\ exit_status \in {Running, <<1>>}
  /\ \A n \in Names : setup_by[n] \in {NOTSET} \cup Levels

(* ---------------------------------------------------------------------- *)
(* Properties                                                              *)
(* ---------------------------------------------------------------------- *)
\* how many events of the last call went to `sink`
Count(events, sink) ==
  Cardinality({i \in 1..Len(events) : events[i].sink = sink})

\* the last call was an emission method of a ColoredLogger whose logger is
\* as its latest construction ColoredLogger(name, T) left it
LoggedOnBuilt ==
  /\ last.op = "log"
  /\ setup_by[last.name] # NOTSET

\* the file handlers attached to any logger of the registry
FileSinks ==
  UNION {{h \in {loggers[n].handlers[i] : i \in 1..Len(loggers[n].handlers)} :
            h.kind = "FileHandler"} : n \in DOMAIN loggers}

\* the classes of a logger's handlers, in order
Kinds(handlers) == [i \in 1..Len(handlers) |-> handlers[i].kind]

\* C1: an emission of any severity on a logger built by ColoredLogger(name, T)
\* writes a line to the shared log file, whatever T is
C1_FileLineAlways ==
  LoggedOnBuilt => Count(out, "file") >= 1

\* C2: an emission of severity S on a logger built by ColoredLogger(name, T)
\* writes a console line if and only if S >= T
C2_ConsoleIffAtLeastThreshold ==
  LoggedOnBuilt =>
    (Count(out, "console") >= 1 <=> last.arg >= setup_by[last.name])

C2_Witness ==
  /\ LoggedOnBuilt
  /\ last.arg = INFO
  /\ setup_by[last.name] = WARNING
  /\ Count(out, "console") = 0

\* C3: however often ColoredLogger is constructed for a name, the logger has
\* exactly one console sink, one file sink and one termination handler, and a
\* record the thresholds admit is written once to the console and once to
\* the file
C3_OneSinkOfEachKind ==
  /\ \A n \in Names :
       setup_by[n] # NOTSET =>
         /\ n \in DOMAIN loggers
         /\ Kinds(loggers[n].handlers) =
              <<"StreamHandler", "FileHandler", "CriticalExitHandler">>
  /\ (LoggedOnBuilt /\ last.arg >= setup_by[last.name]) =>
       /\ Count(out, "console") = 1
       /\ Count(out, "file") = 1

\* the last call was ColoredLogger(name, T2) for a name whose logger had
\* handlers attached
RepeatConstruction ==
  /\ last.op = "ColoredLogger"
  /\ last.before.handlers # <<>>

\* a logger that had its three handlers constructed again: it has three
C3_Witness ==
  /\ RepeatConstruction
  /\ Len(last.before.handlers) = 3
  /\ Len(loggers[last.name].handlers) = 3
  /\ setup_by[last.name] # NOTSET

\* C4 as stated: a repeat construction leaves the logger as it was
C4_RepeatLeavesLoggerUnchanged ==
  RepeatConstruction => loggers[last.name] = last.before

\* C4 amended: a repeat construction ColoredLogger(name, T2) sets the logger's
\* level and its console sink's threshold to T2 and leaves it with one console
\* sink, one file sink on the shared path and one termination handler
C4_RepeatReconfigures ==
  RepeatConstruction =>
    /\ loggers[last.name].level = map_log_level(last.arg)
    /\ loggers[last.name].handlers[1].level = map_log_level(last.arg)
    /\ Kinds(loggers[last.name].handlers) =
         <<"StreamHandler", "FileHandler", "CriticalExitHandler">>
    /\ loggers[last.name].handlers[2].path = shared_log_file

\* a repeat construction with a verbosity other than the earlier one
C4_Witness ==
  /\ RepeatConstruction
  /\ Kinds(last.before.handlers) =
       <<"StreamHandler", "FileHandler", "CriticalExitHandler">>
  /\ last.before.level = DEBUG
  /\ loggers[last.name].level = ERROR

\* C5: critical() on a logger built by ColoredLogger ends the process with
\* exit status 1, and once the process has exited no call runs
C5_CriticalExits ==
  [][/\ (LoggedOnBuilt /\ last.arg = CRITICAL)' => exit_status' = <<1>>
     /\ exit_status # Running => vars' = vars]_vars

C5_Witness ==
  /\ LoggedOnBuilt
  /\ last.arg = CRITICAL
  /\ setup_by[last.name] = CRITICAL
  /\ exit_status = <<1>>

\* C6: whenever a call ends in exit(1), the console write and the file write
\* of the record come before the exit
C6_WritesPrecedeExit ==
  \A k \in 1..Len(out) :
    out[k].sink = "exit" =>
      /\ \E i \in 1..(k - 1) :
           out[i].sink = "console" /\ out[i].line[2].levelname = "CRITICAL"
      /\ \E j \in 1..(k - 1) :
           out[j].sink = "file" /\ out[j].line[1].levelname = "CRITICAL"

C6_Witness ==
  /\ last.op = "log"
  /\ last.arg = CRITICAL
  /\ Len(out) = 3
  /\ out[3].sink = "exit"

\* C7: critical() on a ColoredLogger ends the process with status 1, also
\* after configure_logging(module_log_levels), a key of which may be the
\* ColoredLogger's own name
C7_CriticalExitsAfterConfigure ==
  (last.op = "log" /\ last.arg = CRITICAL) => exit_status = <<1>>

\* C8: every file sink of every logger is on the shared path, which is
\* assigned once
C8_OneSharedPath ==
  /\ assignments <= 1
  /\ \A h \in FileSinks : h.path = shared_log_file /\ h.path # NoPath
  /\ instances # {} => shared_log_file # NoPath

\* ColoredLoggers of all names and a module logger, the last of them set up
\* a second after the first: their file sinks are on the path of the first
C8_Witness ==
  /\ now > 0
  /\ shared_log_file = LogPath(0)
  /\ instances = Names
  /\ \E n \in ThirdParty :
       n \in DOMAIN loggers /\ Len(loggers[n].handlers) = 2
  /\ \A h \in FileSinks : h.path = LogPath(0)
  /\ last.op = "ColoredLogger"

\* C9: with loggers constructed concurrently the shared path is assigned
\* once and all file sinks are on the same path
C9_RaceFree ==
  /\ assignments <= 1
  /\ \A g, h \in FileSinks : g.path = h.path

\* the last call was a record logged by the library of a third-party name
\* whose logger the noise policy has set to WARNING
LoggedOnQuietened ==
  /\ last.op = "lib"
  /\ ThirdPartyLevels[last.name] = WARNING
  /\ loggers[last.name].level = WARNING

\* C10 as stated: on a third-party name set to WARNING a DEBUG record does
\* not reach the console and an ERROR record does
C10_DebugHiddenErrorShown ==
  LoggedOnQuietened =>
    /\ last.arg = DEBUG => Count(out, "console") = 0
    /\ last.arg = ERROR => Count(out, "console") >= 1

\* the console sinks attached to a logger
ConsoleSinks(name) ==
  {h \in {loggers[name].handlers[i] : i \in 1..Len(loggers[name].handlers)} :
     h.kind = "StreamHandler"}

\* C10 amended: on a third-party name set to WARNING a DEBUG record does not
\* reach the console, and an ERROR record does unless a console sink with a
\* threshold above ERROR is attached to that name
C10_ErrorShownUnlessSinkAbove ==
  LoggedOnQuietened =>
    /\ last.arg = DEBUG => Count(out, "console") = 0
    /\ last.arg = ERROR =>
         (Count(out, "console") >= 1 <=>
            \A h \in ConsoleSinks(last.name) : h.level <= ERROR)

C10_Witness ==
  /\ LoggedOnQuietened
  /\ last.arg = ERROR
  /\ loggers[last.name].handlers = <<>>
  /\ Count(out, "console") = 1

(* ---------------------------------------------------------------------- *)
(* C11                                                                     *)
(* ---------------------------------------------------------------------- *)
\* s spells the upper-case name k in upper, lower or mixed case
IsSpelling(s, k) ==
  /\ Len(s) = Len(k)
  /\ \A i \in 1..Len(k) : s[i] \in CaseForms(k[i])

\* the severity whose name s spells, INFO when it spells none
SeverityNamed(s) ==
  IF \E k \in DOMAIN log_level_mapping : IsSpelling(s, k)
  THEN log_level_mapping[CHOOSE k \in DOMAIN log_level_mapping :
                           IsSpelling(s, k)]
  ELSE INFO

\* C11: a logger constructed with a verbosity string that spells DEBUG, INFO,
\* WARNING, ERROR or CRITICAL in any mix of upper and lower case has that
\* severity as its level and as its console threshold; constructed with any
\* other string it is built all the same and both are INFO.
C11_SpellingsMapElseInfo ==
  last.op = "ColoredLogger" =>
    /\ loggers[last.name].level = SeverityNamed(last.arg)
    /\ Len(loggers[last.name].handlers) = 3
    /\ loggers[last.name].handlers[1].kind = "StreamHandler"
    /\ loggers[last.name].handlers[1].level = SeverityNamed(last.arg)

\* a mixed-case spelling of CRITICAL was passed and the console threshold is
\* CRITICAL
C11_Witness ==
  /\ last.op = "ColoredLogger"
  /\ last.arg = <<"c","R","i","t","I","C","a","l">>
  /\ loggers[last.name].handlers[1].level = CRITICAL

\* a string that names no level was passed and the console threshold is INFO
C11_WitnessOther ==
  /\ last.op = "ColoredLogger"
  /\ last.arg = <<"w","a","r","n">>
  /\ loggers[last.name].handlers[1].level = INFO

(* ---------------------------------------------------------------------- *)
(* C12                                                                     *)
(* ---------------------------------------------------------------------- *)
\* the severity of the records the last call emitted: configure_logging
\* emits with self.logger.info
SeverityOfLast == IF last.op = "configure_logging" THEN INFO ELSE last.arg

\* the last call emitted on a logger that has sinks attached, so that what
\* it wrote was written by them
WrittenBySinks ==
  /\ last.op \in {"log", "lib", "configure_logging"}
  /\ HandlerChain(loggers, last.name) # <<>>

\* C12: every console line a console sink writes for a record of severity S
\* begins with the color token of S and ends with the reset token, and a
\* line written to a file has no color token and no reset token among its
\* parts: it is the rendered template of the record alone.
C12_ConsoleColoredFilePlain ==
  \A i \in 1..Len(out) :
    /\ (WrittenBySinks /\ out[i].sink = "console") =>
         /\ Len(out[i].line) >= 2
         /\ out[i].line[1] = LOG_COLORS[levelname(SeverityOfLast)]
         /\ out[i].line[1] # RESET_COLOR
         /\ out[i].line[Len(out[i].line)] = RESET_COLOR
    /\ out[i].sink = "file" =>
         /\ Len(out[i].line) = 1
         /\ out[i].line[1].levelname = levelname(SeverityOfLast)

\* a WARNING record was written to the console in yellow and to the file
\* without color
C12_Witness ==
  /\ last.op = "log"
  /\ last.arg = WARNING
  /\ \E i, j \in 1..Len(out) :
       /\ out[i].sink = "console"
       /\ out[i].line[1] = "ESC[93m"
       /\ out[j].sink = "file"
       /\ Len(out[j].line) = 1

(* ---------------------------------------------------------------------- *)
(* C13                                                                     *)
(* ---------------------------------------------------------------------- *)
\* C13: an emission of severity DEBUG, INFO, WARNING or ERROR on a logger
\* built by ColoredLogger returns normally: no handler ends the process
\* during the call and the process is still running after it.
C13_NoExitBelowCritical ==
  (last.op = "log" /\ last.arg \in {DEBUG, INFO, WARNING, ERROR}) =>
    /\ ~Exits(out)
    /\ exit_status = Running

\* an ERROR record went through a logger that has the termination handler
\* attached, was written to the console and the file, and the process runs on
C13_Witness ==
  /\ last.op = "log"
  /\ last.arg = ERROR
  /\ Kinds(loggers[last.name].handlers) =
       <<"StreamHandler", "FileHandler", "CriticalExitHandler">>
  /\ Count(out, "console") = 1
  /\ Count(out, "file") = 1
  /\ exit_status = Running

(* ---------------------------------------------------------------------- *)
(* C15                                                                     *)
(* ---------------------------------------------------------------------- *)
\* C15: the handlers that handle a record emitted on a logger built by
\* ColoredLogger are that logger's own and none of an ancestor or of the
\* root; with the loggers for a name and for its dotted child both built, a
\* record emitted on the child that the child's thresholds admit is written
\* to the console exactly once and to the file exactly once.
C15_OwnHandlersOnly ==
  /\ \A n \in instances :
       /\ ~loggers[n].propagate
       /\ HandlerChain(loggers, n) = loggers[n].handlers
  /\ (/\ LoggedOnBuilt
      /\ last.name = "a.b"
      /\ DottedParent(last.name) \in instances
      /\ last.arg >= setup_by[last.name]) =>
       /\ Count(out, "console") = 1
       /\ Count(out, "file") = 1

\* 'a' and 'a.b' are both built, the parent's sinks would admit the record
\* too, and the record emitted on 'a.b' was written once to each
C15_Witness ==
  /\ LoggedOnBuilt
  /\ last.name = "a.b"
  /\ last.arg = WARNING
  /\ setup_by["a"] = DEBUG
  /\ Len(loggers["a"].handlers) = 3
  /\ Count(out, "console") = 1
  /\ Count(out, "file") = 1

(* ---------------------------------------------------------------------- *)
(* C14                                                                     *)
(* ---------------------------------------------------------------------- *)
\* the stream a handler writes to
SinkOf(h) == IF h.kind = "StreamHandler" THEN "console" ELSE "file"

\* the console and file handlers attached to the logger of the last call
\* whose own threshold admits the record
AdmittingSinks ==
  {i \in 1..Len(loggers[last.name].handlers) :
     /\ loggers[last.name].handlers[i].kind \in {"StreamHandler", "FileHandler"}
     /\ last.arg >= loggers[last.name].handlers[i].level}

\* every sink of AdmittingSinks has its line among those of the last call
AdmittingSinksWrote ==
  \A i \in AdmittingSinks :
    \E j \in 1..Len(out) :
      /\ out[j].sink = SinkOf(loggers[last.name].handlers[i])
      /\ out[j].path = loggers[last.name].handlers[i].path

\* the lines on the console, and those in each file, are in call order
InCallOrder ==
  \A i, j \in 1..Len(written) :
    (/\ i < j
     /\ written[i].sink = written[j].sink
     /\ written[i].path = written[j].path) => written[i].call <= written[j].call

\* C14: when an emission call is over, every attached sink whose threshold
\* admits the record has written it, and the lines of calls made one after
\* the other, on one logger or on several, are on the console and in the
\* shared file in call order.
C14_SynchronousInOrder ==
  /\ last.op = "log" => AdmittingSinksWrote
  /\ InCallOrder

\* what holds of the dispatch: a record the logger's own level lets through
\* is written by every admitting sink before the call is over, and lines
\* are in call order
C14_EnabledWrittenInOrder ==
  /\ (last.op = "log" /\ isEnabledFor(loggers, last.name, last.arg)) =>
       AdmittingSinksWrote
  /\ InCallOrder

\* two calls on different loggers both wrote to the one file
C14_TwoCallsOneFile ==
  /\ Len(calls) = 2
  /\ calls[1].name # calls[2].name
  /\ \E i, j \in 1..Len(written) :
       /\ written[i].call = 1
       /\ written[j].call = 2
       /\ written[i].sink = "file"
       /\ written[j].sink = "file"
       /\ written[i].path = written[j].path

(* ---------------------------------------------------------------------- *)
(* C16                                                                     *)
(* ---------------------------------------------------------------------- *)
\* the severity of the record the last call emitted: config_logger emits
\* with logger.debug
EmittedSeverity == IF last.op = "config_logger" THEN DEBUG ELSE last.arg

\* the calls of setup_logger so far whose threshold admits severity S
SetupsAdmitting(S) == {i \in 1..Len(calls) : calls[i].arg <= S}

\* C16: after n calls of the legacy setup_logger the root logger holds
\* exactly n console handlers, the i-th with the threshold passed to the i-th
\* call, and a record of severity S emitted on a propagating logger is
\* printed once for each of those calls whose threshold is at most S.
C16_SetupLoggerCumulative ==
  /\ Len(loggers[Root].handlers) = Len(calls)
  /\ \A i \in 1..Len(calls) :
       /\ loggers[Root].handlers[i].kind = "StreamHandler"
       /\ loggers[Root].handlers[i].level = calls[i].arg
  /\ (/\ last.op \in {"lib", "config_logger"}
      /\ Len(calls) >= 1
      /\ loggers[last.name].propagate) =>
       Count(out, "console") = Cardinality(SetupsAdmitting(EmittedSeverity))

\* after setup_logger(DEBUG), setup_logger(ERROR), setup_logger(INFO) a
\* WARNING record was printed twice
C16_Witness ==
  /\ Len(calls) = 3
  /\ calls[1].arg = DEBUG
  /\ calls[2].arg = ERROR
  /\ calls[3].arg = INFO
  /\ last.op = "lib"
  /\ last.arg = WARNING
  /\ Count(out, "console") = 2

====
